---- MODULE Spec2Model ----
(***************************************************************************)
(* Driver proximity index of the driver-service: the Redis geo set         *)
(* 'drivers', the driver profile table, and the DriverService operations   *)
(* that write and search them (updateLocation, searchNearbyDrivers,        *)
(* deleteDriver, ...).                                                     *)
(*                                                                         *)
(* Strings whose characters the code inspects (driver ids, the value of    *)
(* MAX_DRIVER_SEARCH_COUNT) are sequences of one-character strings.        *)
(* Coordinates are whole degrees, distances whole kilometres.              *)
(***************************************************************************)
EXTENDS Integers, Sequences, FiniteSets, TLC

VARIABLES geo, db, ret, calls, applied, trips, now, mqtt, client

vars == <<geo, db, ret, calls, applied, trips, now, mqtt, client>>

serviceVars == <<geo, db, ret, calls, applied>>

(***************************************************************************)
(* Bounds of the explored inputs.                                          *)
(***************************************************************************)
MaxLon == 1
MaxCount == 2
MaxCalls == 2
MaxTrips == 2
MaxTime == 3
MaxVus == 2
MaxEvents == 8

\* the grid of valid positions: longitudes 0..MaxLon on two parallels
Lons == 0..MaxLon
Lats == {0, 1}

\* coordinates offered to updateLocation: the grid plus out-of-range values
LonInputs == Lons \cup {200, -181}
LatInputs == Lats \cup {91, -91}

\* searches: the two ends of the equator row as centres; radii (km)
\* negative, zero, one grid step, the whole row; counts from -1 to MaxCount
CenterInputs == {<<0, 0>>, <<MaxLon, 0>>}
RadiusInputs == {-1, 0, 120, 120 * (MaxLon + 1)}
CountInputs == (-1)..MaxCount

(***************************************************************************)
(* Driver ids.                                                             *)
(***************************************************************************)
D1 == <<"d", "1">>
D2 == <<"g", "h", "o", "s", "t">>
GhostA == <<"g", "h", "o", "s", "t", ":", "a">>
GhostB == <<"g", "h", "o", "s", "t", ":", "b">>

Ids == {D1, D2, GhostA, GhostB}
\* ids that issue write calls in the read/write specification
Callers == {D1, GhostA}

GhostPrefix == <<"g", "h", "o", "s", "t", ":">>

\* String.prototype.startsWith
StartsWith(s, prefix) ==
    /\ Len(s) >= Len(prefix)
    /\ SubSeq(s, 1, Len(prefix)) = prefix

IsGhost(id) == StartsWith(id, GhostPrefix)

(***************************************************************************)
(* process.env as read by searchNearbyDrivers.                             *)
(***************************************************************************)
\* an unset variable; the other values are the variable's text
Unset == "undefined"
UnsetText == <<"undefined">>
NaN == [nan |-> TRUE, val |-> 0]
Num(n) == [nan |-> FALSE, val |-> n]

UseH3Values == {Unset, "true", "false", "TRUE"}
PreferRealValues == {Unset, "true", "false", "FALSE"}
MaxSearchCountValues ==
    { UnsetText, <<"0">>, <<"1">>, <<"2", "x">>, <<"-", "1">>, <<"a", "b">>,
      <<"\t", "", " ", "0", "x", "1">> }

DefaultMaxSearchCount == <<"1", "0", "0", "0">>

Digits == {"0", "1", "2", "3", "4", "5", "6", "7", "8", "9"}

DigitValue(c) ==
    CASE c = "0" -> 0 [] c = "1" -> 1 [] c = "2" -> 2 [] c = "3" -> 3
      [] c = "4" -> 4 [] c = "5" -> 5 [] c = "6" -> 6 [] c = "7" -> 7
      [] c = "8" -> 8 [] c = "9" -> 9

RECURSIVE DigitPrefix(_, _, _)
\* value of the longest run of decimal digits at the start of s, given that
\* `seen` digits of value `acc` were already read; NaN when there is none
DigitPrefix(s, acc, seen) ==
    IF s # <<>> /\ Head(s) \in Digits
    THEN DigitPrefix(Tail(s), 10 * acc + DigitValue(Head(s)), seen + 1)
    ELSE IF seen = 0 THEN NaN ELSE Num(acc)

HexDigits ==
    Digits \cup {"a", "b", "c", "d", "e", "f", "A", "B", "C", "D", "E", "F"}

HexValue(c) ==
    CASE c \in Digits -> DigitValue(c)
      [] c \in {"a", "A"} -> 10 [] c \in {"b", "B"} -> 11
      [] c \in {"c", "C"} -> 12 [] c \in {"d", "D"} -> 13
      [] c \in {"e", "E"} -> 14 [] c \in {"f", "F"} -> 15

RECURSIVE HexPrefix(_, _, _)
\* the same for the hexadecimal digits that follow a 0x
HexPrefix(s, acc, seen) ==
    IF s # <<>> /\ Head(s) \in HexDigits
    THEN HexPrefix(Tail(s), 16 * acc + HexValue(Head(s)), seen + 1)
    ELSE IF seen = 0 THEN NaN ELSE Num(acc)

\* the white space and line terminators parseInt skips: blank, tab, line
\* feed, carriage return, form feed, then, written as the characters
\* themselves, U+000B (vertical tab), U+00A0 (no-break space), U+FEFF (byte
\* order mark) and U+1680 (Ogham space mark). The others of ECMAScript
\* (U+2000 to U+200A, U+2028, U+2029, U+202F, U+205F, U+3000) cannot be
\* written in a string of TLA+ and no text of the model holds them.
WhiteSpace ==
    {" ", "\t", "\n", "\r", "\f", "", " ", "﻿", " "}

RECURSIVE SkipSpaces(_)
SkipSpaces(s) ==
    IF s # <<>> /\ Head(s) \in WhiteSpace THEN SkipSpaces(Tail(s)) ELSE s

\* parseInt(string), no radix given: leading white space, an optional sign,
\* then hexadecimal digits after 0x or 0X, decimal digits otherwise
ParseInt(str) ==
    LET s == SkipSpaces(str)
        neg == s # <<>> /\ Head(s) = "-"
        body == IF s # <<>> /\ Head(s) \in {"-", "+"} THEN Tail(s) ELSE s
        hex == Len(body) >= 2 /\ body[1] = "0" /\ body[2] \in {"x", "X"}
        n == IF hex THEN HexPrefix(Tail(Tail(body)), 0, 0)
             ELSE DigitPrefix(body, 0, 0)
    IN IF n.nan THEN NaN ELSE IF neg THEN Num(0 - n.val) ELSE n

\* a || b on an environment string: undefined and '' are falsy
OrDefault(v, dflt) == IF v = UnsetText \/ v = <<>> THEN dflt ELSE v

\* truthiness of a number or NaN, as in `maxCount && maxCount > 0`
PositiveNumber(n) == ~n.nan /\ n.val # 0 /\ n.val > 0

(***************************************************************************)
(* JavaScript array helpers.                                               *)
(***************************************************************************)
Min(a, b) == IF a < b THEN a ELSE b
Max(a, b) == IF a > b THEN a ELSE b

\* slice(0, end) that takes the element at index end as well
Slice0_inclusive(s, end) ==
    LET e == IF end < 0 THEN Max(Len(s) + end + 1, 0) ELSE Min(end + 1, Len(s))
    IN SubSeq(s, 1, e)

\* Array.prototype.slice(0, end): a negative end counts from the back
Slice0(s, end) ==
    LET e == IF end < 0 THEN Max(Len(s) + end, 0) ELSE Min(end, Len(s))
    IN SubSeq(s, 1, e)

(***************************************************************************)
(* The Redis geo set 'drivers': a set of entries [member, longitude,       *)
(* latitude]; coordinates here are whole degrees.                          *)
(***************************************************************************)
\* the answer of the Redis server to the GEOADD that client.geoAdd sends:
\* it takes longitudes in [-180, 180] and latitudes in [-85.05112878,
\* 85.05112878] and replies with an error to any other pair.  Neither
\* RedisService.geoadd nor DriverService checks a coordinate: the pair
\* reaches the server as it was passed in.
GeoCoordValid(lon, lat) ==
    /\ lon >= -180 /\ lon <= 180
    /\ lat >= -85 /\ lat <= 85

GeoEntry(member, lon, lat) ==
    [member |-> member, longitude |-> lon, latitude |-> lat]

\* the entries of a member (one at most)
EntriesOf(g, id) == {e \in g : e.member = id}

\* GEOADD that adds the coordinates to those of the member's entry, as the
\* INCR option of ZADD does with a score
GeoAdd_incr(g, lon, lat, member) ==
    LET old == {e \in g : e.member = member}
        base == IF old = {} THEN GeoEntry(member, 0, 0) ELSE CHOOSE e \in old : TRUE
    IN (g \ old) \cup {GeoEntry(member, base.longitude + lon,
                                base.latitude + lat)}

\* GEOADD key lon lat member: the member's entry is replaced
GeoAdd(g, lon, lat, member) ==
    {e \in g : e.member # member} \cup {GeoEntry(member, lon, lat)}

RECURSIVE SqrtIter(_, _, _)
SqrtIter(n, lo, hi) ==
    IF lo >= hi THEN lo
    ELSE LET mid == (lo + hi + 1) \div 2
         IN IF mid * mid <= n THEN SqrtIter(n, mid, hi)
            ELSE SqrtIter(n, lo, mid - 1)

ISqrt(n) == SqrtIter(n, 0, Min(n, 40000))

\* distance in km between two points a few degrees apart near the equator:
\* one degree of arc of a sphere of radius 6371 km is 111.195 km
DistKm(lon1, lat1, lon2, lat2) ==
    LET dlon == lon1 - lon2
        dlat == lat1 - lat2
    IN ISqrt(12364 * (dlon * dlon + dlat * dlat))

\* the WITHDIST reply row of an entry for a search centred at (lon, lat)
GeoRow(e, lon, lat) ==
    [member |-> e.member,
     distance |-> DistKm(e.longitude, e.latitude, lon, lat)]

WithinRadius(g, lon, lat, radiusKm) ==
    {GeoRow(e, lon, lat) : e \in {x \in g :
        DistKm(x.longitude, x.latitude, lon, lat) <= radiusKm}}

RECURSIVE Orderings(_, _)
\* the orders in which Redis may list the rows: with SORT ASC nearest first
\* (rows at equal distance in any order), without SORT in any order
Orderings(rows, sortAsc) ==
    IF rows = {} THEN {<<>>}
    ELSE LET firsts == IF sortAsc
                       THEN {r \in rows :
                               \A q \in rows : r.distance <= q.distance}
                       ELSE rows
         IN UNION {{<<r>> \o t : t \in Orderings(rows \ {r}, sortAsc)} :
                   r \in firsts}

\* GEOSEARCH key FROMLONLAT lon lat BYRADIUS radiusKm km [ASC] [COUNT n]
\* WITHDIST: the possible replies (count.nan: no COUNT option)
GeoSearchWith(g, lon, lat, radiusKm, sortAsc, count) ==
    {IF count.nan THEN s ELSE SubSeq(s, 1, Min(count.val, Len(s))) :
        s \in Orderings(WithinRadius(g, lon, lat, radiusKm), sortAsc)}

(***************************************************************************)
(* RedisService.  storeUp = FALSE: the command fails for want of a         *)
(* connection.  Each method yields the outcome(s) of its one command.      *)
(***************************************************************************)
RedisOk(g, rows) == [ok |-> TRUE, error |-> "none", geo |-> g, rows |-> rows]
RedisErr(g, why) == [ok |-> FALSE, error |-> why, geo |-> g, rows |-> <<>>]

geoadd(g, lon, lat, member, storeUp) ==
    IF ~storeUp THEN RedisErr(g, "unavailable")
    ELSE IF ~GeoCoordValid(lon, lat) THEN RedisErr(g, "rejected")
    ELSE RedisOk(GeoAdd(g, lon, lat, member), <<>>)

geosearch(g, lon, lat, radiusKm, count, storeUp) ==
    LET limit == IF PositiveNumber(Num(count)) THEN Num(count) ELSE NaN
    IN IF ~storeUp THEN {RedisErr(g, "unavailable")}
       ELSE IF radiusKm < 0 THEN {RedisErr(g, "rejected")}
       ELSE {RedisOk(g, rows) :
                rows \in GeoSearchWith(g, lon, lat, radiusKm, TRUE, limit)}

\* geosearchLarge without SORT: 'ASC' in its options
geosearchLarge_unsorted(g, lon, lat, radiusKm, maxCount, storeUp) ==
    LET limit == IF PositiveNumber(maxCount) THEN maxCount ELSE NaN
    IN IF ~storeUp THEN {RedisErr(g, "unavailable")}
       ELSE IF radiusKm < 0 THEN {RedisErr(g, "rejected")}
       ELSE {RedisOk(g, rows) :
                rows \in GeoSearchWith(g, lon, lat, radiusKm, FALSE, limit)}

geosearchLarge(g, lon, lat, radiusKm, maxCount, storeUp) ==
    LET limit == IF PositiveNumber(maxCount) THEN maxCount ELSE NaN
    IN IF ~storeUp THEN {RedisErr(g, "unavailable")}
       ELSE IF radiusKm < 0 THEN {RedisErr(g, "rejected")}
       ELSE {RedisOk(g, rows) :
                rows \in GeoSearchWith(g, lon, lat, radiusKm, TRUE, limit)}

(***************************************************************************)
(* The driverProfile table: rows [userId, lastLatLng], userId unique;      *)
(* lastLatLng is <<>> (both columns null) or <<lastLat, lastLng>>.         *)
(* dbUp = FALSE: the statement fails for want of a connection.             *)
(***************************************************************************)
HasProfile(d, id) == \E row \in d : row.userId = id

ProfileRow(id, latLng) == [userId |-> id, lastLatLng |-> latLng]

\* driverProfile.update({where: {userId}, data: {lastLat, lastLng}})
DbSetLatLng(d, id, latLng) ==
    {IF row.userId = id THEN ProfileRow(id, latLng) ELSE row : row \in d}

\* driverProfile.delete({where: {userId}})
DbDelete(d, id) == {row \in d : row.userId # id}

(***************************************************************************)
(* The outcome of the call that finished last.  profile: the kind of       *)
(* profile returned ("ghost": the literal of the bypass, "db": a mapped    *)
(* row); repeated: the call repeats the successful call before it.         *)
(***************************************************************************)
NoRet ==
    [op |-> "none", id |-> <<>>, lon |-> 0, lat |-> 0, radiusKm |-> 0,
     count |-> 0, status |-> "", useH3 |-> Unset, preferReal |-> Unset,
     maxSearchCount |-> UnsetText,
     outcome |-> "ok", success |-> TRUE, fetched |-> <<>>, list |-> <<>>,
     redisCmds |-> <<>>, redisError |-> "none", dbCmds |-> <<>>,
     dbError |-> "none", profile |-> "none", repeated |-> FALSE]

Call(op, id, lon, lat) ==
    [NoRet EXCEPT !.op = op, !.id = id, !.lon = lon, !.lat = lat]

(***************************************************************************)
(* DriverService                                                           *)
(***************************************************************************)
\* why a statement failed: no connection, or the reason given
DbFailure(dbUp, why) == IF dbUp THEN why ELSE "unavailable"

create(id, dbUp) ==
    LET call == Call("create", id, 0, 0)
    IN /\ IF dbUp /\ ~HasProfile(db, id)
          THEN /\ db' = db \cup {ProfileRow(id, <<>>)}
               /\ ret' = [call EXCEPT !.dbCmds = <<"create">>,
                                       !.profile = "db"]
          ELSE /\ db' = db
               /\ ret' = [call EXCEPT
                            !.dbCmds = <<"create">>,
                            !.dbError = DbFailure(dbUp, "duplicate"),
                            !.outcome = "error"]
       /\ UNCHANGED geo

findOne(id, dbUp) ==
    LET call == Call("findOne", id, 0, 0)
    IN /\ IF IsGhost(id)
          THEN ret' = [call EXCEPT !.profile = "ghost"]
          ELSE IF dbUp /\ HasProfile(db, id)
          THEN ret' = [call EXCEPT !.dbCmds = <<"findUnique">>,
                                   !.profile = "db"]
          ELSE \* findUnique rejects, or yields null and mapToResponse throws
               ret' = [call EXCEPT !.dbCmds = <<"findUnique">>,
                                   !.dbError = DbFailure(dbUp, "none"),
                                   !.outcome = "error"]
       /\ UNCHANGED <<geo, db>>

\* updateStatus without the ghost bypass of lines 134-150
updateStatus_noBypass(id, status, dbUp) ==
    LET call == [Call("updateStatus", id, 0, 0) EXCEPT !.status = status]
    IN /\ IF dbUp /\ HasProfile(db, id)
          THEN /\ db' = IF status \in {"BUSY", "OFFLINE"}
                        THEN DbSetLatLng(db, id, <<>>)
                        ELSE db
               /\ ret' = [call EXCEPT !.dbCmds = <<"update">>,
                                       !.profile = "db"]
          ELSE /\ db' = db
               /\ ret' = [call EXCEPT
                            !.dbCmds = <<"update">>,
                            !.dbError = DbFailure(dbUp, "notFound"),
                            !.outcome = "error"]
       /\ UNCHANGED geo

StatusInputs == {"ONLINE", "OFFLINE", "BUSY"}

updateStatus(id, status, dbUp) ==
    LET call == [Call("updateStatus", id, 0, 0) EXCEPT !.status = status]
    IN /\ IF IsGhost(id)
          THEN /\ db' = db
               /\ ret' = [call EXCEPT !.profile = "ghost"]
          ELSE IF dbUp /\ HasProfile(db, id)
          THEN /\ db' = IF status \in {"BUSY", "OFFLINE"}
                        THEN DbSetLatLng(db, id, <<>>)
                        ELSE db
               /\ ret' = [call EXCEPT !.dbCmds = <<"update">>,
                                       !.profile = "db"]
          ELSE /\ db' = db
               /\ ret' = [call EXCEPT
                            !.dbCmds = <<"update">>,
                            !.dbError = DbFailure(dbUp, "notFound"),
                            !.outcome = "error"]
       /\ UNCHANGED geo

\* the call updateLocation(id, lon, lat) comes right after the same call,
\* which succeeded
Repeats(id, lon, lat) ==
    /\ ret.op = "updateLocation" /\ ret.outcome = "ok"
    /\ ret.id = id /\ ret.lon = lon /\ ret.lat = lat

\* allResults.filter(r => !r.member.startsWith('ghost:'))
RealDrivers(allResults) ==
    SelectSeq(allResults, LAMBDA r : ~IsGhost(r.member))

\* the filler taken from every candidate, real drivers included
GhostDrivers_unfiltered(allResults) == allResults

\* allResults.filter(r => r.member.startsWith('ghost:'))
GhostDrivers(allResults) ==
    SelectSeq(allResults, LAMBDA r : IsGhost(r.member))

\* lines 277-317 of searchNearbyDrivers: real drivers first, ghosts as filler
SelectResults(allResults, count, preferRealDrivers) ==
    LET realDrivers == RealDrivers(allResults)
        ghostDrivers == GhostDrivers(allResults)
        realSlice == Slice0(realDrivers, count)
        remainingSlots == Max(0, count - Len(realSlice))
        ghostSlice == Slice0(ghostDrivers, remainingSlots)
    IN IF preferRealDrivers
       THEN realSlice \o ghostSlice
       ELSE Slice0(allResults, count)

\* results.map(r => ({driverId: r.member, distance: r.distance.toString()}))
ToList(results) ==
    [i \in 1..Len(results) |->
        [driverId |-> results[i].member, distance |-> results[i].distance]]

SearchCall(op, data) ==
    [Call(op, <<>>, data.longitude, data.latitude)
        EXCEPT !.radiusKm = data.radiusKm, !.count = data.count]

\* FlatScan that keeps the reply in 'drivers', as GEOSEARCHSTORE does
FlatScan_storing(data, env, storeUp) ==
    LET maxSearchCount ==
            ParseInt(OrDefault(env.MAX_DRIVER_SEARCH_COUNT,
                               DefaultMaxSearchCount))
        preferRealDrivers == env.PREFER_REAL_DRIVERS # "false"
        called == [SearchCall("searchNearbyDrivers", data)
                      EXCEPT !.useH3 = env.USE_H3,
                             !.maxSearchCount = env.MAX_DRIVER_SEARCH_COUNT,
                             !.preferReal = env.PREFER_REAL_DRIVERS,
                             !.redisCmds = <<"GEOSEARCH">>]
    IN /\ \E reply \in geosearchLarge(geo, data.longitude, data.latitude,
                                       data.radiusKm, maxSearchCount,
                                       storeUp) :
             IF ~reply.ok
             THEN ret' = [called EXCEPT !.outcome = "error",
                                        !.redisError = reply.error]
             ELSE ret' = [called EXCEPT
                            !.fetched = reply.rows,
                            !.list = ToList(SelectResults(reply.rows,
                                                          data.count,
                                                          preferRealDrivers))]
       /\ geo' = {e \in geo :
                    \E i \in 1..Len(ret'.fetched) :
                        ret'.fetched[i].member = e.member}
       /\ UNCHANGED db

\* the pre-tuning branch of searchNearbyDrivers (lines 259-324)
FlatScan(data, env, storeUp) ==
    LET maxSearchCount ==
            ParseInt(OrDefault(env.MAX_DRIVER_SEARCH_COUNT,
                               DefaultMaxSearchCount))
        preferRealDrivers == env.PREFER_REAL_DRIVERS # "false"
        called == [SearchCall("searchNearbyDrivers", data)
                      EXCEPT !.useH3 = env.USE_H3,
                             !.maxSearchCount = env.MAX_DRIVER_SEARCH_COUNT,
                             !.preferReal = env.PREFER_REAL_DRIVERS,
                             !.redisCmds = <<"GEOSEARCH">>]
    IN /\ \E reply \in geosearchLarge(geo, data.longitude, data.latitude,
                                       data.radiusKm, maxSearchCount,
                                       storeUp) :
             IF ~reply.ok
             THEN ret' = [called EXCEPT !.outcome = "error",
                                        !.redisError = reply.error]
             ELSE ret' = [called EXCEPT
                            !.fetched = reply.rows,
                            !.list = ToList(SelectResults(reply.rows,
                                                          data.count,
                                                          preferRealDrivers))]
       /\ UNCHANGED <<geo, db>>

\* searchNearbyDrivers that scans whatever USE_H3 says
searchNearbyDrivers_fallback(data, env, storeUp) ==
    FlatScan(data, env, storeUp)

\* searchNearbyDrivers that takes the H3 branch whenever USE_H3 is set
searchNearbyDrivers_truthy(data, env, storeUp) ==
    LET useH3 == env.USE_H3 # Unset
    IN IF useH3
       THEN /\ ret' = [SearchCall("searchNearbyDrivers", data)
                          EXCEPT !.useH3 = env.USE_H3, !.outcome = "error"]
            /\ UNCHANGED <<geo, db>>
       ELSE FlatScan(data, env, storeUp)

searchNearbyDrivers(data, env, storeUp) ==
    LET useH3 == env.USE_H3 = "true"
    IN IF useH3
       THEN \* 'H3 implementation not yet available'
            /\ ret' = [SearchCall("searchNearbyDrivers", data)
                          EXCEPT !.useH3 = env.USE_H3, !.outcome = "error"]
            /\ UNCHANGED <<geo, db>>
       ELSE FlatScan(data, env, storeUp)

\* the searchNearbyDrivers of src/unnamed/part_001: one geosearch, no overlay
searchNearbyDrivers_geosearch(data, storeUp) ==
    LET call == [SearchCall("searchNearbyDrivers_geosearch", data)
                    EXCEPT !.redisCmds = <<"GEOSEARCH">>]
    IN /\ \E res \in geosearch(geo, data.longitude, data.latitude,
                                 data.radiusKm, data.count, storeUp) :
            IF ~res.ok
            THEN ret' = [call EXCEPT !.outcome = "error",
                                     !.redisError = res.error]
            ELSE ret' = [call EXCEPT !.fetched = res.rows,
                                     !.list = ToList(res.rows)]
       /\ UNCHANGED <<geo, db>>

(***************************************************************************)
(* The k6 performance test (src/unnamed/part_000).  k6 runs the script     *)
(* once per virtual user (VU), each in a JavaScript runtime of its own, so *)
(* the Maps of lines 157-158 exist once per VU.  The script exports        *)
(* userLifecycleScenario and tripCompletionScenario side by side over the  *)
(* same tripStartTimes; which VU is handed an iteration of which of them   *)
(* is the choice of the k6 scheduler, which the script does not make, so   *)
(* every VU may run either.                                                *)
(* trips[v].tripStartTimes[t]: the entry of trip t in the tripStartTimes   *)
(* of VU v (inMap), its startAt and completeAt, its started flag, and what *)
(* the worker has done with it: completeInvoked: completeTrip was called   *)
(* for it; completedUnstarted: completeTrip was called while no startTrip  *)
(* had succeeded.  now: the clock Date.now() reads, in units of a second.  *)
(***************************************************************************)
testVars == <<trips, now, mqtt>>

Vus == 1..MaxVus

TripIds == 1..MaxTrips

\* startDelay (2 to 7 seconds) and getAcceleratedTripDuration(), in ticks
StartDelays == {1, 2}
TripDurations == {1, 2}

NoTrip ==
    [inMap |-> FALSE, startAt |-> 0, completeAt |-> 0, started |-> FALSE,
     completeInvoked |-> FALSE, completedUnstarted |-> FALSE]

NoTrips ==
    [v \in Vus |-> [tripStartTimes |-> [t \in TripIds |-> NoTrip]]]

\* lines 340-365 in VU v: createTrip returned trip t, which no VU has seen
\* before, with a driver assigned
userLifecycleScenario(v, t, startDelay, tripDuration) ==
    /\ \A u \in Vus : trips[u].tripStartTimes[t] = NoTrip
    /\ trips' = [trips EXCEPT
                   ![v].tripStartTimes[t] =
                        [NoTrip EXCEPT
                           !.inMap = TRUE,
                           !.startAt = now + startDelay,
                           !.completeAt = now + startDelay + tripDuration]]
    /\ UNCHANGED <<now, mqtt>>

\* the trips an iteration of the worker in VU v picks to complete and to
\* start: those of the VU's own tripStartTimes
TripsToComplete(v) ==
    {t \in TripIds : /\ trips[v].tripStartTimes[t].inMap
                     /\ now >= trips[v].tripStartTimes[t].completeAt}

TripsToStart(v) ==
    {t \in TripIds : /\ trips[v].tripStartTimes[t].inMap
                     /\ ~(now >= trips[v].tripStartTimes[t].completeAt)
                     /\ now >= trips[v].tripStartTimes[t].startAt
                     /\ ~trips[v].tripStartTimes[t].started}

\* one iteration of tripCompletionScenario in VU v (lines 457-510);
\* startOk[t] and completeOk[t]: result.success of startTrip(t) and
\* completeTrip(t)
tripCompletionScenario(v, startOk, completeOk) ==
    /\ trips' =
          [trips EXCEPT
             ![v] = [tripStartTimes |->
                       [t \in TripIds |->
                          LET timing == trips[v].tripStartTimes[t]
                          IN IF t \in TripsToStart(v)
                             THEN [timing EXCEPT !.started = startOk[t]]
                             ELSE IF t \in TripsToComplete(v)
                             THEN [timing EXCEPT
                                     !.completeInvoked = TRUE,
                                     !.completedUnstarted = @ \/ ~timing.started,
                                     !.inMap = ~completeOk[t]]
                             ELSE timing]]]
    /\ UNCHANGED <<now, mqtt>>

\* Date.now() moves on between iterations
Tick ==
    /\ now < MaxTime
    /\ now' = now + 1
    /\ UNCHANGED <<trips, mqtt>>

(***************************************************************************)
(* The MQTT driver scenario of the performance test.  Each virtual user    *)
(* (VU) runs its own copy of the script, so mqttClients and the pooled     *)
(* driver are per VU; a VU always maps to the same driver id.  mqtt[v]:    *)
(* has: mqttClients holds a wrapper for the driver; connected, client: the *)
(* wrapper's fields; created: calls of createMqttClient so far; location:  *)
(* the driver's pooled location; lastPublish: what the last call of        *)
(* publishLocationUpdate did ("skipped": returned without publishing).     *)
(***************************************************************************)
\* what mqtt.Client and connect() can do inside createMqttClient
ConnectOutcomes == {"connected", "notConnected", "threw"}

PoolLocations == {0, 1, 2}

NoWrapper ==
    [has |-> FALSE, connected |-> FALSE, client |-> "null", created |-> 0,
     location |-> 0, lastPublish |-> "none"]

NoMqtt == [v \in Vus |-> NoWrapper]

\* createMqttClient (mqtt-client.js lines 34-81): the wrapper it returns
createMqttClient(outcome) ==
    [connected |-> outcome = "connected",
     client |-> IF outcome = "threw" THEN "null" ELSE "client"]

\* publishLocationUpdate (lines 95-146): what it does with the wrapper
publishLocationUpdate(wrapper, publishOk) ==
    IF ~wrapper.connected \/ wrapper.client = "null" THEN "skipped"
    ELSE IF publishOk THEN "sent"
    ELSE "threw"

\* the scenario creating a client whenever the stored one is not connected
driverMqttScenario_retry(v, driverData, outcome, publishOk, newLocation) ==
    /\ driverData
    /\ mqtt[v].created < 3
    /\ LET fresh == ~mqtt[v].has \/ ~mqtt[v].connected
           w == IF fresh
                THEN [mqtt[v] EXCEPT
                        !.has = TRUE,
                        !.connected = createMqttClient(outcome).connected,
                        !.client = createMqttClient(outcome).client,
                        !.created = @ + 1]
                ELSE mqtt[v]
           result == publishLocationUpdate(w, publishOk)
       IN mqtt' = [mqtt EXCEPT
                    ![v] = IF fresh /\ ~w.connected THEN w
                           ELSE [w EXCEPT
                                   !.lastPublish = result,
                                   !.location = IF result = "sent"
                                                THEN newLocation ELSE @]]
    /\ UNCHANGED <<trips, now>>

\* one iteration of driverMqttScenario of VU v (part_000 lines 394-448);
\* driverData: the pool has a driver for this VU
driverMqttScenario(v, driverData, outcome, publishOk, newLocation) ==
    /\ IF ~driverData THEN UNCHANGED mqtt
       ELSE LET fresh == ~mqtt[v].has
                w == IF fresh
                     THEN [mqtt[v] EXCEPT
                             !.has = TRUE,
                             !.connected = createMqttClient(outcome).connected,
                             !.client = createMqttClient(outcome).client,
                             !.created = @ + 1]
                     ELSE mqtt[v]
                result == publishLocationUpdate(w, publishOk)
            IN mqtt' = [mqtt EXCEPT
                         ![v] = IF fresh /\ ~w.connected THEN w
                                ELSE [w EXCEPT
                                        !.lastPublish = result,
                                        !.location = IF result = "sent"
                                                     THEN newLocation ELSE @]]
    /\ UNCHANGED <<trips, now>>

TestIdle ==
    /\ trips = NoTrips
    /\ now = 0
    /\ mqtt = NoMqtt

(***************************************************************************)
(* The life of the Redis client held by RedisService (redis.service.ts     *)
(* lines 11-60).  The node-redis client emits its events as its socket     *)
(* changes: 'connect' when a socket has been opened, 'ready' once the      *)
(* handshake is done, 'error' when the socket fails or a connection        *)
(* attempt fails, and 'reconnecting' when, after a pause, it tries again;  *)
(* it keeps trying from connect() until disconnect() is called.            *)
(* client.isOpen: connect() was called and disconnect() was not;           *)
(* client.socket: "none", "connecting", "connected" (opened), "ready",     *)
(* "waiting" (failed, pausing before the next attempt);                    *)
(* client.isConnected: the service's flag; client.destroyed:               *)
(* onModuleDestroy has run; client.openAtDestroy: the socket was opened or *)
(* ready when it ran; client.disconnectCalls: calls of disconnect();       *)
(* client.everConnected: a socket was opened at some time; client.events:  *)
(* the events emitted so far.                                              *)
(***************************************************************************)
ClientEvents == {"connect", "ready", "reconnecting", "error"}

NewClient ==
    [isOpen |-> FALSE, socket |-> "none", isConnected |-> FALSE,
     destroyed |-> FALSE, openAtDestroy |-> FALSE, disconnectCalls |-> 0,
     everConnected |-> FALSE, events |-> <<>>]

SocketOpen(c) == c.socket \in {"connected", "ready"}

\* the client may emit an event
Emits(event) ==
    /\ client.isOpen
    /\ Len(client.events) < MaxEvents
    /\ CASE event = "connect" -> client.socket = "connecting"
         [] event = "ready" -> client.socket = "connected"
         [] event = "error" -> client.socket \in {"connecting", "connected", "ready"}
         [] event = "reconnecting" -> client.socket = "waiting"

\* onModuleInit (lines 42-53): connect() starts the first attempt
onModuleInit ==
    /\ ~client.isOpen /\ ~client.destroyed /\ client.socket = "none"
    /\ client.disconnectCalls = 0
    /\ client' = [client EXCEPT !.isOpen = TRUE, !.socket = "connecting"]

\* the 'connect' handler (lines 26-29)
on_connect ==
    /\ Emits("connect")
    /\ client' = [client EXCEPT
                    !.socket = "connected",
                    !.isConnected = TRUE,
                    !.everConnected = TRUE,
                    !.events = Append(@, "connect")]

\* the 'ready' handler (lines 32-34)
on_ready ==
    /\ Emits("ready")
    /\ client' = [client EXCEPT !.socket = "ready", !.events = Append(@, "ready")]

\* the 'error' handler (lines 20-23)
on_error ==
    /\ Emits("error")
    /\ client' = [client EXCEPT
                    !.socket = "waiting",
                    !.isConnected = FALSE,
                    !.events = Append(@, "error")]

\* the 'reconnecting' handler (lines 37-39)
on_reconnecting ==
    /\ Emits("reconnecting")
    /\ client' = [client EXCEPT
                    !.socket = "connecting",
                    !.events = Append(@, "reconnecting")]

\* onModuleDestroy (lines 55-60)
onModuleDestroy ==
    /\ ~client.destroyed
    /\ client' = IF client.isConnected
                 THEN [client EXCEPT
                         !.destroyed = TRUE,
                         !.openAtDestroy = SocketOpen(client),
                         !.isOpen = FALSE,
                         !.socket = "none",
                         !.disconnectCalls = @ + 1]
                 ELSE [client EXCEPT
                         !.destroyed = TRUE,
                         !.openAtDestroy = SocketOpen(client)]

(***************************************************************************)
(* updateLocation and deleteDriver.  Each runs in the steps its awaits cut *)
(* it into, and the steps of different calls interleave: updateLocation    *)
(* awaits the GEOADD (line 178) and then, for a real driver, the profile   *)
(* update (line 204); deleteDriver awaits the delete (line 412) and then   *)
(* the GEOADD that moves the entry to (0, 0) (line 423).                   *)
(* calls[c]: the request of call c, where it stands ("idle": not yet made; *)
(* "geoadd", "update", "delete", "cleanup": before that await; "done":     *)
(* returned; "failed": threw), the id's entries in the geo set when the    *)
(* call was made (before), and whether it repeats the call before it.      *)
(* applied: the writes in the order they were applied, each <<c, kind>>    *)
(* with kind "geoadd", "update" or "delete".  ret: the outcome of the call *)
(* that finished last.                                                     *)
(***************************************************************************)
CallIds == 1..MaxCalls

NoCall ==
    [op |-> "none", id |-> <<>>, lon |-> 0, lat |-> 0, pc |-> "idle",
     before |-> {}, repeated |-> FALSE]

NoCalls == [c \in CallIds |-> NoCall]

\* call c can be made: calls are numbered in the order of arrival
Arrives(c) ==
    /\ calls[c].pc = "idle"
    /\ IF c = 1 THEN TRUE ELSE calls[c - 1].pc # "idle"

\* what call c reports when it finishes, before the outcome is filled in
ResultOf(c) ==
    [Call(calls[c].op, calls[c].id, calls[c].lon, calls[c].lat)
        EXCEPT !.repeated = calls[c].repeated]

\* the request arrives
updateLocation_call(c, id, lon, lat) ==
    /\ Arrives(c)
    /\ calls' = [calls EXCEPT
                   ![c] = [op |-> "updateLocation", id |-> id, lon |-> lon,
                           lat |-> lat, pc |-> "geoadd",
                           before |-> EntriesOf(geo, id),
                           repeated |-> Repeats(id, lon, lat)]]
    /\ UNCHANGED <<geo, db, ret, applied>>

\* GEOADD that sets the longitude and keeps the latitude of the entry
updateLocation_geoaddTorn(c, storeUp) ==
    LET call == calls[c]
        old == EntriesOf(geo, call.id)
        lat == IF old = {} THEN call.lat ELSE (CHOOSE e \in old : TRUE).latitude
        added == geoadd(geo, call.lon, lat, call.id, storeUp)
        res == [ResultOf(c) EXCEPT !.redisCmds = <<"GEOADD">>]
    IN /\ call.op = "updateLocation" /\ call.pc = "geoadd"
       /\ IF ~added.ok
          THEN /\ calls' = [calls EXCEPT ![c].pc = "failed"]
               /\ ret' = [res EXCEPT !.outcome = "error",
                                      !.redisError = added.error]
               /\ UNCHANGED <<geo, applied>>
          ELSE /\ geo' = added.geo
               /\ applied' = Append(applied, <<c, "geoadd">>)
               /\ IF IsGhost(call.id)
                  THEN /\ calls' = [calls EXCEPT ![c].pc = "done"]
                       /\ ret' = [res EXCEPT !.profile = "ghost"]
                  ELSE /\ calls' = [calls EXCEPT ![c].pc = "update"]
                       /\ UNCHANGED ret
       /\ UNCHANGED db

\* await this.redisService.geoadd('drivers', longitude, latitude, driverId)
\* and, for a ghost id, the return of the synthetic profile
updateLocation_geoadd(c, storeUp) ==
    LET call == calls[c]
        added == geoadd(geo, call.lon, call.lat, call.id, storeUp)
        res == [ResultOf(c) EXCEPT !.redisCmds = <<"GEOADD">>]
    IN /\ call.op = "updateLocation" /\ call.pc = "geoadd"
       /\ IF ~added.ok
          THEN \* the rejected await throws
               /\ calls' = [calls EXCEPT ![c].pc = "failed"]
               /\ ret' = [res EXCEPT !.outcome = "error",
                                      !.redisError = added.error]
               /\ UNCHANGED <<geo, applied>>
          ELSE /\ geo' = added.geo
               /\ applied' = Append(applied, <<c, "geoadd">>)
               /\ IF IsGhost(call.id)
                  THEN /\ calls' = [calls EXCEPT ![c].pc = "done"]
                       /\ ret' = [res EXCEPT !.profile = "ghost"]
                  ELSE /\ calls' = [calls EXCEPT ![c].pc = "update"]
                       /\ UNCHANGED ret
       /\ UNCHANGED db

\* await this.prismaService.$transaction(db => db.driverProfile.update(...))
\* and the return of the mapped profile
updateLocation_update(c, dbUp) ==
    LET call == calls[c]
        res == [ResultOf(c) EXCEPT !.redisCmds = <<"GEOADD">>,
                                   !.dbCmds = <<"update">>]
    IN /\ call.op = "updateLocation" /\ call.pc = "update"
       /\ IF dbUp /\ HasProfile(db, call.id)
          THEN /\ db' = DbSetLatLng(db, call.id, <<call.lat, call.lon>>)
               /\ applied' = Append(applied, <<c, "update">>)
               /\ calls' = [calls EXCEPT ![c].pc = "done"]
               /\ ret' = [res EXCEPT !.profile = "db"]
          ELSE /\ calls' = [calls EXCEPT ![c].pc = "failed"]
               /\ ret' = [res EXCEPT !.dbError = DbFailure(dbUp, "notFound"),
                                      !.outcome = "error"]
               /\ UNCHANGED <<db, applied>>
       /\ UNCHANGED geo

\* the request arrives
deleteDriver_call(c, userId) ==
    /\ Arrives(c)
    /\ calls' = [calls EXCEPT
                   ![c] = [op |-> "deleteDriver", id |-> userId, lon |-> 0,
                           lat |-> 0, pc |-> "delete",
                           before |-> EntriesOf(geo, userId),
                           repeated |-> FALSE]]
    /\ UNCHANGED <<geo, db, ret, applied>>

\* await this.prismaService.$transaction(db => db.driverProfile.delete(...));
\* a rejection goes to the outer catch, which returns success: false
deleteDriver_delete(c, dbUp) ==
    LET call == calls[c]
        res == [ResultOf(c) EXCEPT !.dbCmds = <<"delete">>]
    IN /\ call.op = "deleteDriver" /\ call.pc = "delete"
       /\ IF dbUp /\ HasProfile(db, call.id)
          THEN /\ db' = DbDelete(db, call.id)
               /\ applied' = Append(applied, <<c, "delete">>)
               /\ calls' = [calls EXCEPT ![c].pc = "cleanup"]
               /\ UNCHANGED ret
          ELSE /\ calls' = [calls EXCEPT ![c].pc = "done"]
               /\ ret' = [res EXCEPT !.dbError = DbFailure(dbUp, "notFound"),
                                      !.success = FALSE]
               /\ UNCHANGED <<db, applied>>
       /\ UNCHANGED geo

\* the cleanup whose failure is not caught on its own, so that it reaches
\* the outer catch
deleteDriver_geoaddUncaught(c, storeUp) ==
    LET call == calls[c]
        added == geoadd(geo, 0, 0, call.id, storeUp)
        res == [ResultOf(c) EXCEPT !.dbCmds = <<"delete">>,
                                   !.redisCmds = <<"GEOADD">>]
    IN /\ call.op = "deleteDriver" /\ call.pc = "cleanup"
       /\ geo' = added.geo
       /\ applied' = IF added.ok THEN Append(applied, <<c, "geoadd">>)
                     ELSE applied
       /\ calls' = [calls EXCEPT ![c].pc = "done"]
       /\ ret' = [res EXCEPT !.redisError = added.error, !.success = added.ok]
       /\ UNCHANGED db

\* await this.redisService.geoadd('drivers', 0, 0, userId) in its own
\* try/catch, which logs a failure, and the return of success: true
deleteDriver_geoadd(c, storeUp) ==
    LET call == calls[c]
        added == geoadd(geo, 0, 0, call.id, storeUp)
        res == [ResultOf(c) EXCEPT !.dbCmds = <<"delete">>,
                                   !.redisCmds = <<"GEOADD">>]
    IN /\ call.op = "deleteDriver" /\ call.pc = "cleanup"
       /\ geo' = added.geo
       /\ applied' = IF added.ok THEN Append(applied, <<c, "geoadd">>)
                     ELSE applied
       /\ calls' = [calls EXCEPT ![c].pc = "done"]
       /\ ret' = [res EXCEPT !.redisError = added.error]
       /\ UNCHANGED db

\* SpecConc: concurrent updateLocation calls alone; the profile table when
\* the calls start: the real caller registered or not
InitConc ==
    /\ geo = {}
    /\ db \in SUBSET {ProfileRow(D1, <<>>)}
    /\ ret = NoRet
    /\ calls = NoCalls
    /\ applied = <<>>
    /\ TestIdle
    /\ client = NewClient

NextConc ==
    \/ /\ \E c \in CallIds, id \in Callers, lon \in Lons, lat \in Lats :
             updateLocation_call(c, id, lon, lat)
       /\ UNCHANGED <<testVars, client>>
    \/ /\ \E c \in CallIds, storeUp \in BOOLEAN :
             updateLocation_geoadd(c, storeUp)
       /\ UNCHANGED <<testVars, client>>
    \/ /\ \E c \in CallIds, dbUp \in BOOLEAN : updateLocation_update(c, dbUp)
       /\ UNCHANGED <<testVars, client>>

SpecConc == InitConc /\ [][NextConc]_vars

(***************************************************************************)
(* Spec: the write operations, from an empty index and an empty table;     *)
(* the steps of up to MaxCalls updateLocation and deleteDriver calls       *)
(* interleave with one another and with the other operations.              *)
(***************************************************************************)
Init ==
    /\ geo = {}
    /\ db = {}
    /\ ret = NoRet
    /\ calls = NoCalls
    /\ applied = <<>>
    /\ TestIdle
    /\ client = NewClient

Next ==
    \/ /\ \E id \in Callers, dbUp \in BOOLEAN : create(id, dbUp)
       /\ UNCHANGED <<calls, applied, testVars, client>>
    \/ /\ \E id \in Callers, dbUp \in BOOLEAN : findOne(id, dbUp)
       /\ UNCHANGED <<calls, applied, testVars, client>>
    \/ /\ \E id \in Callers, status \in StatusInputs, dbUp \in BOOLEAN :
             updateStatus(id, status, dbUp)
       /\ UNCHANGED <<calls, applied, testVars, client>>
    \/ /\ \E c \in CallIds, id \in Callers, lon \in LonInputs, lat \in LatInputs :
             updateLocation_call(c, id, lon, lat)
       /\ UNCHANGED <<testVars, client>>
    \/ /\ \E c \in CallIds, storeUp \in BOOLEAN :
             updateLocation_geoadd(c, storeUp)
       /\ UNCHANGED <<testVars, client>>
    \/ /\ \E c \in CallIds, dbUp \in BOOLEAN : updateLocation_update(c, dbUp)
       /\ UNCHANGED <<testVars, client>>
    \/ /\ \E c \in CallIds, id \in Callers : deleteDriver_call(c, id)
       /\ UNCHANGED <<testVars, client>>
    \/ /\ \E c \in CallIds, dbUp \in BOOLEAN : deleteDriver_delete(c, dbUp)
       /\ UNCHANGED <<testVars, client>>
    \/ /\ \E c \in CallIds, storeUp \in BOOLEAN : deleteDriver_geoadd(c, storeUp)
       /\ UNCHANGED <<testVars, client>>

Spec == Init /\ [][Next]_vars

(***************************************************************************)
(* SpecSearch: one search against any contents of the geo set.             *)
(***************************************************************************)
\* the geo sets the write operations can build over Ids along the equator
Stores ==
    {{GeoEntry(id, at[id], 0) : id \in present} :
        present \in SUBSET Ids, at \in [Ids -> Lons]}

\* the NearbyQuery messages offered to a search
NearbyQueries ==
    {[longitude |-> c[1], latitude |-> c[2], radiusKm |-> r, count |-> n] :
        c \in CenterInputs, r \in RadiusInputs, n \in CountInputs}

\* the settings of process.env offered to a search
Environments ==
    [USE_H3 : UseH3Values,
     MAX_DRIVER_SEARCH_COUNT : MaxSearchCountValues,
     PREFER_REAL_DRIVERS : PreferRealValues]

\* the rows the real drivers of a geo set got from create and updateLocation
ProfilesOf(g) ==
    {ProfileRow(e.member, <<e.latitude, e.longitude>>) :
        e \in {x \in g : ~IsGhost(x.member)}}

InitSearch ==
    /\ geo \in Stores
    /\ db = ProfilesOf(geo)
    /\ ret = NoRet
    /\ calls = NoCalls
    /\ applied = <<>>
    /\ TestIdle
    /\ client = NewClient

NextSearch ==
    \/ /\ ret.op = "none"
       /\ \E data \in NearbyQueries, env \in Environments,
             storeUp \in BOOLEAN :
             searchNearbyDrivers(data, env, storeUp)
       /\ UNCHANGED <<calls, applied, testVars, client>>
    \/ /\ ret.op = "none"
       /\ \E data \in NearbyQueries, storeUp \in BOOLEAN :
             searchNearbyDrivers_geosearch(data, storeUp)
       /\ UNCHANGED <<calls, applied, testVars, client>>

SpecSearch == InitSearch /\ [][NextSearch]_vars

(***************************************************************************)
(* SpecTrips: the trip bookkeeping of the performance test.                *)
(***************************************************************************)
InitTrips ==
    /\ geo = {}
    /\ db = {}
    /\ ret = NoRet
    /\ calls = NoCalls
    /\ applied = <<>>
    /\ TestIdle
    /\ client = NewClient

NextTrips ==
    \/ /\ \E v \in Vus, t \in TripIds, d \in StartDelays, dur \in TripDurations :
             userLifecycleScenario(v, t, d, dur)
       /\ UNCHANGED <<serviceVars, client>>
    \/ /\ \E v \in Vus :
             \E startOk \in [TripIds -> BOOLEAN], completeOk \in [TripIds -> BOOLEAN] :
                tripCompletionScenario(v, startOk, completeOk)
       /\ UNCHANGED <<serviceVars, client>>
    \/ /\ Tick
       /\ UNCHANGED <<serviceVars, client>>

SpecTrips == InitTrips /\ [][NextTrips]_vars

(***************************************************************************)
(* SpecMqtt: the VUs of the driver_mqtt scenario.                          *)
(***************************************************************************)
InitMqtt ==
    /\ geo = {}
    /\ db = {}
    /\ ret = NoRet
    /\ calls = NoCalls
    /\ applied = <<>>
    /\ TestIdle
    /\ client = NewClient

NextMqtt ==
    /\ \E v \in Vus, driverData \in BOOLEAN, outcome \in ConnectOutcomes :
          \E publishOk \in BOOLEAN, newLocation \in PoolLocations :
             driverMqttScenario(v, driverData, outcome, publishOk, newLocation)
    /\ UNCHANGED <<serviceVars, client>>

SpecMqtt == InitMqtt /\ [][NextMqtt]_vars

(***************************************************************************)
(* SpecClient: the Redis client from construction to shutdown.             *)
(***************************************************************************)
InitClient ==
    /\ geo = {}
    /\ db = {}
    /\ ret = NoRet
    /\ calls = NoCalls
    /\ applied = <<>>
    /\ TestIdle
    /\ client = NewClient

NextClient ==
    \/ /\ onModuleInit
       /\ UNCHANGED <<serviceVars, testVars>>
    \/ /\ on_connect
       /\ UNCHANGED <<serviceVars, testVars>>
    \/ /\ on_ready
       /\ UNCHANGED <<serviceVars, testVars>>
    \/ /\ on_error
       /\ UNCHANGED <<serviceVars, testVars>>
    \/ /\ on_reconnecting
       /\ UNCHANGED <<serviceVars, testVars>>
    \/ /\ onModuleDestroy
       /\ UNCHANGED <<serviceVars, testVars>>

SpecClient == InitClient /\ [][NextClient]_vars

(***************************************************************************)
(* Properties                                                              *)
(***************************************************************************)
SearchOps == {"searchNearbyDrivers", "searchNearbyDrivers_geosearch"}

\* the last step was a search that returned a list
SearchReturned == ret.op \in SearchOps /\ ret.outcome = "ok"

\* preferRealDrivers of the last search (the geosearch variant has no overlay)
PreferPrimary == ret.op = "searchNearbyDrivers" /\ ret.preferReal # "false"

NonDecreasing(list) ==
    \A i \in 1..Len(list), j \in 1..Len(list) :
        i < j => list[i].distance <= list[j].distance

PrimaryPart(list) == SelectSeq(list, LAMBDA r : ~IsGhost(r.driverId))
SecondaryPart(list) == SelectSeq(list, LAMBDA r : IsGhost(r.driverId))

\* C1 as stated: every successful search, whatever the requested count
\* (positive, zero or negative), returns at most count entries.
C1_CapacityAnyCount ==
    SearchReturned => Len(ret.list) <= ret.count

\* C2 as stated: in every successful search result, with preferPrimary true
\* or false, the distances are non-decreasing from first to last.
C2_OrderedAcrossResult ==
    SearchReturned => NonDecreasing(ret.list)

\* C2 amended: in every successful search result the distances are
\* non-decreasing among the real entries and among the ghost entries, and
\* across the whole result when preferPrimary is false.
C2_DistanceOrdering ==
    SearchReturned =>
       /\ NonDecreasing(PrimaryPart(ret.list))
       /\ NonDecreasing(SecondaryPart(ret.list))
       /\ ~PreferPrimary => NonDecreasing(ret.list)

\* a mixed result without overlay whose entries lie at different distances
C2_Witness ==
    /\ SearchReturned /\ ~PreferPrimary
    /\ ret.op = "searchNearbyDrivers"
    /\ Len(ret.list) >= 2
    /\ ret.list[1].distance < ret.list[Len(ret.list)].distance
    /\ PrimaryPart(ret.list) # <<>> /\ SecondaryPart(ret.list) # <<>>

\* the real drivers stored within the radius of the last search
PrimaryInRadius ==
    {r \in WithinRadius(geo, ret.lon, ret.lat, ret.radiusKm) :
        ~IsGhost(r.member)}

\* C3: with preferPrimary, when at least count real drivers are stored
\* within the radius, the result holds no ghost entry.
C3_OverlayPriority ==
    (/\ SearchReturned /\ PreferPrimary
     /\ Cardinality(PrimaryInRadius) >= ret.count)
    => SecondaryPart(ret.list) = <<>>

\* call c takes a step; it finishes (returns or throws) in this step
StepOf(c) == calls'[c].pc # calls[c].pc

Finishes(c) == StepOf(c) /\ calls'[c].pc \in {"done", "failed"}

\* C4: after a successful deleteDriver(id) the geo set has no entry for id
\* (so no search can return it).
C4_DeregisterRemoves ==
    (ret.op = "deleteDriver" /\ ret.success)
    => \A e \in geo : e.member # ret.id

\* C5: a successful search with count <= 0 returns an empty list.
C5_NonPositiveCountEmpty ==
    (SearchReturned /\ ret.count <= 0) => ret.list = <<>>

\* the coordinate ranges of a Point
CoordinateInRange(lon, lat) ==
    /\ lon >= -180 /\ lon <= 180
    /\ lat >= -90 /\ lat <= 90

\* C6: an updateLocation with a longitude or latitude out of range fails
\* before the store is touched: no step of the call changes the geo set or
\* the profile table, and the call ends in an error without a command to
\* Redis or to the database.
C6_InvalidCoordinateRejected ==
    [][\A c \in CallIds :
          (/\ StepOf(c) /\ calls'[c].op = "updateLocation"
           /\ ~CoordinateInRange(calls'[c].lon, calls'[c].lat))
          => /\ geo' = geo /\ db' = db
             /\ Finishes(c) => /\ ret'.outcome = "error"
                                /\ ret'.redisCmds = <<>>
                                /\ ret'.dbCmds = <<>>]_vars

\* C7: a search with radiusKm <= 0 fails, and no command reaches Redis.
C7_InvalidRadiusRejected ==
    (ret.op \in SearchOps /\ ret.radiusKm <= 0)
    => (ret.outcome = "error" /\ ret.redisCmds = <<>>)

\* C8: with USE_H3 = 'true' the search fails at once: no list, no
\* candidates fetched, no GEOSEARCH issued.
C8_HierarchicalFailsFast ==
    (ret.op = "searchNearbyDrivers" /\ ret.useH3 = "true")
    => /\ ret.outcome = "error"
       /\ ret.list = <<>>
       /\ ret.fetched = <<>>
       /\ ret.redisCmds = <<>>

\* the hierarchical strategy asked of a store where a flat scan would find
\* drivers
C8_Witness ==
    /\ ret.op = "searchNearbyDrivers"
    /\ ret.useH3 = "true"
    /\ ret.outcome = "error"
    /\ ret.count > 0
    /\ WithinRadius(geo, ret.lon, ret.lat, ret.radiusKm) # {}

\* the caller of the last step was told of a failure
FailureReported ==
    \/ ret.outcome = "error"
    \/ ret.op = "deleteDriver" /\ ~ret.success

\* C9: whenever Redis fails during a call, the caller is told of a failure.
C9_StoreFailurePropagates ==
    ret.redisError = "unavailable" => FailureReported

\* C10, call by call: the geo set holds at most one entry per id; when a
\* report returns the id's entry is at the reported coordinates, and when a
\* report fails the id's entry is as it was when the report was made.
C10_UpsertReplaces ==
    [][\A c \in CallIds :
          (Finishes(c) /\ calls'[c].op = "updateLocation") =>
             /\ \A e1 \in geo', e2 \in geo' : e1.member = e2.member => e1 = e2
             /\ IF ret'.outcome = "ok"
                THEN EntriesOf(geo', ret'.id)
                        = {GeoEntry(ret'.id, ret'.lon, ret'.lat)}
                ELSE EntriesOf(geo', ret'.id) = calls[c].before]_vars

IdsOf(list) == {list[i].driverId : i \in 1..Len(list)}

\* C11: every search that returns, from either searchNearbyDrivers and under
\* every PREFER_REAL_DRIVERS setting, lists each driverId at most once.
C11_NoDuplicates ==
    (ret.op \in SearchOps /\ ret.outcome = "ok")
        => \A i, j \in 1..Len(ret.list) :
              ret.list[i].driverId = ret.list[j].driverId => i = j

\* a preferring search that returned the one real driver and a ghost filler
\* while a further ghost was fetched and cut
C11_Witness ==
    /\ SearchReturned /\ PreferPrimary
    /\ Len(ret.list) = 2 /\ Len(ret.fetched) > 2
    /\ ~IsGhost(ret.list[1].driverId) /\ IsGhost(ret.list[2].driverId)
    /\ Cardinality(IdsOf(ret.list)) = 2

\* C12: no step of an updateLocation that repeats the successful call
\* before it changes the geo set or the profile table, while they hold what
\* the first call left.
C12_UpsertIdempotent ==
    [][\A c \in CallIds :
          (/\ StepOf(c) /\ calls[c].op = "updateLocation" /\ calls[c].repeated
           /\ GeoEntry(calls[c].id, calls[c].lon, calls[c].lat) \in geo
           /\ \/ IsGhost(calls[c].id)
              \/ ProfileRow(calls[c].id, <<calls[c].lat, calls[c].lon>>) \in db)
          => (geo' = geo /\ db' = db)]_vars

\* a real driver's report repeated with success: the entry and the row hold
\* the reported position
C12_Witness ==
    /\ ret.op = "updateLocation" /\ ret.repeated /\ ret.outcome = "ok"
    /\ ~IsGhost(ret.id)
    /\ GeoEntry(ret.id, ret.lon, ret.lat) \in geo
    /\ ProfileRow(ret.id, <<ret.lat, ret.lon>>) \in db
    /\ Len(applied) = 4

\* the first n elements of s (all of s when it has fewer)
FirstN(s, n) == SubSeq(s, 1, Min(Max(n, 0), Len(s)))

\* C13: with preferRealDrivers and count > 0 the result is the first
\* min(count, P) real candidates in fetched order followed by the first
\* min(count - taken, S) ghost candidates in fetched order, P and S being the
\* numbers of real and ghost candidates fetched; so every real entry precedes
\* every ghost entry, and a ghost entry appears only when fewer than count
\* real candidates were fetched.
C13_SlotFilling ==
    (SearchReturned /\ PreferPrimary /\ ret.count > 0)
        => LET primaries == SelectSeq(ToList(ret.fetched),
                                      LAMBDA r : ~IsGhost(r.driverId))
               secondaries == SelectSeq(ToList(ret.fetched),
                                        LAMBDA r : IsGhost(r.driverId))
               taken == Min(ret.count, Len(primaries))
           IN /\ ret.list = FirstN(primaries, taken)
                               \o FirstN(secondaries, ret.count - taken)
              /\ \A i, j \in 1..Len(ret.list) :
                    (~IsGhost(ret.list[j].driverId)
                       /\ IsGhost(ret.list[i].driverId)) => j < i
              /\ SecondaryPart(ret.list) # <<>>
                    => Len(primaries) < ret.count

\* two slots, filled by the one real candidate, which lies farther than the
\* ghost that takes the second slot, while another ghost is left out
C13_Witness ==
    /\ SearchReturned /\ PreferPrimary /\ ret.count = 2
    /\ Len(ret.fetched) = 3
    /\ ~IsGhost(ret.fetched[3].member)
    /\ Len(ret.list) = 2
    /\ ret.list[1].driverId = ret.fetched[3].member
    /\ ret.list[2].driverId = ret.fetched[1].member

\* C14: with PREFER_REAL_DRIVERS 'false' the search returns exactly the first
\* count entries of the fetched, distance-ordered list (none when count is
\* not positive), in the fetched order, real and ghost entries alike.
C14_PlainPrefix ==
    (ret.op = "searchNearbyDrivers" /\ ret.outcome = "ok"
        /\ ret.preferReal = "false")
        => ret.list = ToList(FirstN(ret.fetched, ret.count))

\* C15: a search step, successful or failed, whatever its query and
\* environment, leaves the geo set and the profile table as they were; the
\* only command it sends is GEOSEARCH.
C15_SearchReadOnly ==
    [][ret'.op \in SearchOps
          => /\ geo' = geo /\ db' = db
             /\ ret'.dbCmds = <<>>
             /\ \A i \in 1..Len(ret'.redisCmds) :
                   ret'.redisCmds[i] = "GEOSEARCH"]_vars

\* a search that returned one of three drivers; the geo set and the rows of
\* the two real drivers are still there
C15_Witness ==
    /\ SearchReturned /\ Len(ret.list) = 1
    /\ Cardinality(geo) = 3 /\ Cardinality(db) = 2

\* C16: deleteDriver of an id that had no entry in the geo set when the call
\* was made reports no error and leaves the id without an entry, whether
\* the id was never registered or was deleted before (the database and
\* Redis being reachable).
C16_RemovalIdempotent ==
    [][\A c \in CallIds :
          (/\ Finishes(c) /\ calls'[c].op = "deleteDriver"
           /\ calls[c].before = {}
           /\ ret'.dbError # "unavailable"
           /\ ret'.redisError # "unavailable")
          => (ret'.success /\ EntriesOf(geo', ret'.id) = {})]_vars

\* no updateLocation call is between its request and its return
Quiescent == \A c \in CallIds : calls[c].pc \in {"idle", "done", "failed"}

\* the writes of one kind applied for an id, in the order they were applied
WritesOf(id, kind) ==
    SelectSeq(applied, LAMBDA w : w[2] = kind /\ calls[w[1]].id = id)

\* the call whose write comes last in a non-empty sequence of writes
LastCall(writes) == calls[writes[Len(writes)][1]]

\* C17: once the concurrent updateLocation calls have finished, every id's
\* geo entry holds the longitude and the latitude of the one call whose
\* GEOADD for that id was applied last (no entry when none was applied), and
\* its row the lastLat/lastLng of the call whose update was applied last:
\* never the longitude of one call with the latitude of another, and never a
\* value written for another id.
C17_LastWriteWins ==
    Quiescent =>
        \A id \in Callers :
            LET adds == WritesOf(id, "geoadd")
                updates == WritesOf(id, "update")
            IN /\ EntriesOf(geo, id) =
                    IF adds = <<>> THEN {}
                    ELSE {GeoEntry(id, LastCall(adds).lon, LastCall(adds).lat)}
               /\ {r \in db : r.userId = id} \subseteq
                    IF updates = <<>> THEN {ProfileRow(id, <<>>)}
                    ELSE {ProfileRow(id, <<LastCall(updates).lat,
                                           LastCall(updates).lon>>)}

\* two calls for the real driver with different longitudes and latitudes
\* have both returned; the GEOADD of the second was applied before that of
\* the first, and the entry holds the position of the first
C17_Witness ==
    /\ Quiescent
    /\ calls[1].pc = "done" /\ calls[2].pc = "done"
    /\ calls[1].id = D1 /\ calls[2].id = D1
    /\ calls[1].lon # calls[2].lon /\ calls[1].lat # calls[2].lat
    /\ applied[1] = <<2, "geoadd">>
    /\ GeoEntry(D1, calls[1].lon, calls[1].lat) \in geo

\* C18: a search under the hierarchical strategy (USE_H3 'true') returns the
\* set of ids the flat scan finds for the same geo set and query, before
\* any truncation: the members within the radius.
C18_StrategyEquivalence ==
    (ret.op = "searchNearbyDrivers" /\ ret.useH3 = "true"
        /\ ret.radiusKm >= 0)
        => {ret.fetched[i].member : i \in 1..Len(ret.fetched)}
              = {r.member : r \in WithinRadius(geo, ret.lon, ret.lat,
                                                ret.radiusKm)}

\* C19: findOne, updateStatus and updateLocation of a 'ghost:' id send no
\* statement to the database, leave the table as it was and return the
\* synthetic profile (findOne and updateStatus always, updateLocation exactly
\* when its GEOADD was accepted); an updateLocation whose GEOADD was accepted
\* leaves the id's entry at the reported position, for ghost and real ids.
C19_GhostBypass ==
    [][/\ (/\ calls' = calls /\ ret'.op \in {"findOne", "updateStatus"}
           /\ IsGhost(ret'.id))
          => /\ ret'.dbCmds = <<>> /\ db' = db
             /\ ret'.outcome = "ok" /\ ret'.profile = "ghost"
       /\ \A c \in CallIds :
             (StepOf(c) /\ calls'[c].op = "updateLocation") =>
                /\ IsGhost(calls'[c].id) =>
                      /\ db' = db /\ calls'[c].pc # "update"
                      /\ Finishes(c) =>
                            /\ ret'.dbCmds = <<>>
                            /\ ret'.outcome = "ok" => ret'.profile = "ghost"
                            /\ ret'.outcome = "ok" <=> ret'.redisError = "none"
                /\ calls[c].pc = "geoadd" /\ calls'[c].pc # "failed" =>
                      GeoEntry(calls[c].id, calls[c].lon, calls[c].lat) \in geo']_vars

\* a ghost that has a row in the table reported a position: the entry is
\* written, the synthetic profile returned and the row still without position
C19_Witness ==
    /\ ret.op = "updateLocation" /\ IsGhost(ret.id)
    /\ ret.outcome = "ok" /\ ret.profile = "ghost" /\ ret.dbCmds = <<>>
    /\ GeoEntry(ret.id, ret.lon, ret.lat) \in geo
    /\ ProfileRow(ret.id, <<>>) \in db

\* the ceiling MAX_DRIVER_SEARCH_COUNT configures: its number (nothing may be
\* fetched when it is zero or negative), or the default when it is unset or
\* not a number
FetchCeiling(text) ==
    LET n == ParseInt(OrDefault(text, DefaultMaxSearchCount))
    IN IF n.nan THEN ParseInt(DefaultMaxSearchCount).val ELSE Max(n.val, 0)

\* C20: a flat-scan search fetches at most the configured ceiling of
\* candidates, whatever the text of MAX_DRIVER_SEARCH_COUNT.
C20_FetchCeiling ==
    (ret.op = "searchNearbyDrivers" /\ ret.outcome = "ok")
        => Len(ret.fetched) <= FetchCeiling(ret.maxSearchCount)

\* the last search threw 'H3 implementation not yet available': it failed
\* without a command to Redis
HierarchicalUnavailable ==
    /\ ret.op = "searchNearbyDrivers" /\ ret.outcome = "error"
    /\ ret.redisCmds = <<>> /\ ret.redisError = "none"

\* C21: the search fails as hierarchical-unavailable exactly when USE_H3 is
\* 'true'; with USE_H3 unset or anything else it sends the flat scan's
\* GEOSEARCH; and its result puts real drivers first (for count >= 0: the
\* first count real candidates, then ghosts for the slots left) unless
\* PREFER_REAL_DRIVERS is exactly 'false', when it is the first count
\* candidates as fetched.
C21_Defaults ==
    ret.op = "searchNearbyDrivers" =>
        /\ HierarchicalUnavailable <=> ret.useH3 = "true"
        /\ ret.useH3 # "true" => ret.redisCmds = <<"GEOSEARCH">>
        /\ (ret.outcome = "ok" /\ ret.count >= 0) =>
              LET all == ToList(ret.fetched)
                  taken == Min(ret.count, Len(PrimaryPart(all)))
              IN ret.list =
                   IF ret.preferReal = "false"
                   THEN FirstN(all, ret.count)
                   ELSE FirstN(PrimaryPart(all), taken)
                           \o FirstN(SecondaryPart(all), ret.count - taken)

\* USE_H3 = 'TRUE' and PREFER_REAL_DRIVERS = 'FALSE': the flat scan ran and
\* the real driver, fetched after a ghost, heads the result
C21_Witness ==
    /\ ret.op = "searchNearbyDrivers" /\ ret.outcome = "ok"
    /\ ret.useH3 = "TRUE" /\ ret.preferReal = "FALSE"
    /\ Len(ret.fetched) = 2 /\ IsGhost(ret.fetched[1].member)
    /\ Len(ret.list) = 1 /\ ~IsGhost(ret.list[1].driverId)

\* C24: an updateLocation of a real id that throws leaves the geo set with
\* the entry (or the absence of an entry) the id had before the call.
C24_AllOrNothing ==
    [][\A c \in CallIds :
          (/\ Finishes(c) /\ calls'[c].op = "updateLocation"
           /\ ~IsGhost(ret'.id) /\ ret'.outcome = "error")
          => EntriesOf(geo', ret'.id) = calls[c].before]_vars

\* C25: once every concurrent updateLocation call made for a real driver has
\* returned successfully, the driver's geo entry and the lastLat/lastLng of
\* its row hold the same position.
C25_GeoAndDbAgree ==
    \A id \in Callers :
        (/\ ~IsGhost(id)
         /\ \E c \in CallIds : calls[c].id = id
         /\ \A c \in CallIds : calls[c].id = id => calls[c].pc = "done")
        => \A e \in EntriesOf(geo, id) :
              ProfileRow(id, <<e.latitude, e.longitude>>) \in db

\* C26: right after a successful updateStatus(id, BUSY or OFFLINE) of a real
\* driver, which nulls its lastLat/lastLng, no search finds the driver:
\* it is within no radius of any centre.
C26_InactiveNotReturned ==
    (/\ ret.op = "updateStatus" /\ ret.outcome = "ok"
     /\ ret.status \in {"BUSY", "OFFLINE"} /\ ~IsGhost(ret.id))
    => \A c \in CenterInputs, r \in RadiusInputs :
          \A row \in WithinRadius(geo, c[1], c[2], r) : row.member # ret.id

\* C27: deleteDriver never throws; when its delete is rejected (as for a
\* 'ghost:' id, which has no profile) it returns success = false at once,
\* with no command sent to the geo set and both stores as they were; when
\* the delete is applied it goes on to the GEOADD and returns success = true
\* whatever the GEOADD's outcome.
C27_DeleteOutcome ==
    [][\A c \in CallIds :
          (StepOf(c) /\ calls[c].op = "deleteDriver") =>
             /\ calls'[c].pc # "failed"
             /\ Finishes(c) => ret'.outcome = "ok"
             /\ calls[c].pc = "delete" =>
                   /\ geo' = geo
                   /\ IF Finishes(c)
                      THEN /\ ~ret'.success /\ ret'.dbError # "none"
                           /\ ret'.redisCmds = <<>> /\ db' = db
                      ELSE /\ HasProfile(db, calls[c].id)
                           /\ db' = DbDelete(db, calls[c].id)
                   /\ (IsGhost(calls[c].id) /\ ~HasProfile(db, calls[c].id))
                         => Finishes(c)
             /\ calls[c].pc = "cleanup" =>
                   /\ Finishes(c) /\ ret'.success /\ ret'.dbError = "none"
                   /\ db' = db]_vars

\* the row was deleted while Redis was unreachable: success all the same
C27_Witness ==
    /\ ret.op = "deleteDriver" /\ ret.success
    /\ ret.redisError = "unavailable"
    /\ ~HasProfile(db, ret.id)

\* C28: with PREFER_REAL_DRIVERS 'false' and count > 0 the search returns
\* exactly min(count, n) entries, n being the number of members within the
\* radius, and they are the nearest ones, whatever the fetch ceiling.
C28_FlatScanSize ==
    (/\ ret.op = "searchNearbyDrivers" /\ ret.outcome = "ok"
     /\ ret.preferReal = "false" /\ ret.count > 0)
    => LET inRadius == WithinRadius(geo, ret.lon, ret.lat, ret.radiusKm)
           returned == {[member |-> ret.list[i].driverId,
                         distance |-> ret.list[i].distance] :
                           i \in 1..Len(ret.list)}
       IN /\ Len(ret.list) = Min(ret.count, Cardinality(inRadius))
          /\ returned \subseteq inRadius
          /\ \A far \in inRadius \ returned, near \in returned :
                near.distance <= far.distance

\* C22: completeTrip is invoked for no trip of a tripStartTimes before a
\* startTrip of that trip has succeeded, whenever the iterations of the
\* worker fall and whichever calls of startTrip fail.
C22_StartBeforeComplete ==
    \A v \in Vus, t \in TripIds : ~trips[v].tripStartTimes[t].completedUnstarted

\* C23: in every VU createMqttClient is called at most once for the driver,
\* nothing is published through a wrapper that is not connected (or has no
\* client), and the pooled location changes only in an iteration whose
\* publish succeeded.
C23_OneConnection ==
    [][\A v \in Vus :
          /\ mqtt'[v].created <= 1
          /\ mqtt'[v].lastPublish \in {"sent", "threw"} =>
                (mqtt'[v].connected /\ mqtt'[v].client # "null")
          /\ mqtt'[v].location # mqtt[v].location =>
                mqtt'[v].lastPublish = "sent"]_vars

\* a VU whose first connect failed ran further iterations: one client was
\* created, nothing was published and the location is the initial one
C23_WitnessFailedConnect ==
    \E v \in Vus :
        /\ mqtt[v].has /\ ~mqtt[v].connected /\ mqtt[v].created = 1
        /\ mqtt[v].lastPublish = "skipped"
        /\ \E u \in Vus : mqtt[u].lastPublish = "sent" /\ mqtt[u].location # 0

\* C29: once onModuleDestroy has run, disconnect was called exactly if the
\* connection was open when it ran, no connection is open, and disconnect
\* was called only on a client that had connected.
C29_Shutdown ==
    client.destroyed =>
        /\ client.disconnectCalls > 0 <=> client.openAtDestroy
        /\ ~SocketOpen(client)
        /\ client.disconnectCalls > 0 => client.everConnected

====
